---- MODULE Spec2Model ----
(***************************************************************************)
(* Model of the App component of frontend/src/App.tsx: the form state, the *)
(* status and busy flag, the three-stage handler handleStartProcess, the   *)
(* download handler and the start-up health check.                         *)
(*                                                                         *)
(* JavaScript runs one task at a time.  An action of this model is one     *)
(* synchronous block of a handler: from its invocation, or from the        *)
(* settlement of the call it awaits, up to its next await.  An await of an *)
(* already settled promise (uploadFiles returning false, sendEmails        *)
(* throwing before its call) resumes in a microtask, which runs before any *)
(* other task: the run is then at a microtask position and every other     *)
(* action is disabled until it has resumed.                                *)
(***************************************************************************)
EXTENDS Integers, Sequences, FiniteSets, TLC

VARIABLES formData, status, isProcessing, runs, downloads, health, console

vars == <<formData, status, isProcessing, runs, downloads, health, console>>

\* ---------------------------------------------------------------- bounds
MaxRuns == 2
MaxDownloads == 1
\* The size of a session: its runs, its downloads and the payload fields
\* that its form, or the form a run of it took, holds edited, taken together.
MaxActivity == 2

\* ------------------------------------------------------------- constants
Null == "null"
\* null in a field that holds a number or null (x, y): no number that is
\* entered in the model.
NullNumber == -1
\* NaN, which parseInt gives for no text (fontsize, dpi): no number that is
\* entered in the model.
NaN == -2
DefaultFontsize == 90
DefaultDpi == 600

ParticipantsFile == "participants.csv"
TemplateFile == "template.png"
SenderAddress == "sender@example.com"

MsgStarting == "Starting process..."
MsgUploading == "Uploading files..."
MsgGenerating == "Generating certificates..."
MsgSending == "Sending emails..."
MsgSuccess == "All operations completed successfully!"
MsgSelectFiles == "Please select both participants CSV and template image files."
MsgUploadFailed == "Failed to upload files"
MsgGenerateFailed == "Failed to generate certificates"
MsgSenderRequired == "Sender email is required"
MsgSendFailed == "Failed to send emails"
MsgGeneric == "An error occurred"
MsgDownloadFailed == "Failed to download certificates"

UploadEndpoint == "/upload-files"
GenerateEndpoint == "/generate-certificates"
SendEndpoint == "/send-emails"
DownloadEndpoint == "/download-certificates"
HealthEndpoint == "/health"

\* ----------------------------------------------------------------- state
InitialFormData ==
  [ participants |-> Null, template |-> Null, emailBody |-> "",
    x |-> NullNumber, y |-> NullNumber, fontsize |-> DefaultFontsize, color |-> "#000000",
    outline |-> FALSE, dpi |-> DefaultDpi, senderEmail |-> "",
    senderPassword |-> "", customSubject |-> "" ]

Status(t, m) == [type |-> t, message |-> m]
Loading(m) == Status("loading", m)
InitialStatus == Status(Null, "")

\* The values the form handlers are called with: a file or null for each
\* file input, both values of the sender email that the component tells
\* apart, and for each of the other inputs an entered value, the value that
\* puts the field back as it was at first, and what an emptied input gives.
FileEdits ==
  { <<"participants", Null>>, <<"participants", ParticipantsFile>>,
    <<"template", Null>>, <<"template", TemplateFile>> }
\* The fields that only travel in the payload of a request: no condition
\* of the component reads them.  The form hands handleInputChange parseInt
\* of the text, or null for no text, for x and y, parseInt of the text for
\* fontsize and dpi, and the checkbox for outline.
PayloadFields ==
  { "emailBody", "x", "y", "fontsize", "color", "outline", "dpi",
    "senderPassword", "customSubject" }
InputEdits ==
  { <<"senderEmail", "">>, <<"senderEmail", SenderAddress>>,
    <<"emailBody", "">>, <<"emailBody", "Dear {name}">>,
    <<"x", NullNumber>>, <<"x", 120>>,
    <<"y", NullNumber>>, <<"y", 340>>,
    <<"fontsize", DefaultFontsize>>, <<"fontsize", 72>>, <<"fontsize", NaN>>,
    <<"color", "#000000">>, <<"color", "#ff0000">>,
    <<"outline", FALSE>>, <<"outline", TRUE>>,
    <<"dpi", DefaultDpi>>, <<"dpi", 300>>, <<"dpi", NaN>>,
    <<"senderPassword", "">>, <<"senderPassword", "app-password">>,
    <<"customSubject", "">>,
    <<"customSubject", "Your Certificate - {name}">> }

\* The payload fields of fd that no longer hold their initial value.
Edited(fd) == {f \in PayloadFields : fd[f] # InitialFormData[f]}

Last(s) == s[Len(s)]

\* An Error object thrown by a stage; a thrown value that is no Error has
\* isError FALSE.
Err(m) == [isError |-> TRUE, message |-> m]

\* A request as issued: outcome is "pending" until the promise settles.
Call(e, p) == [endpoint |-> e, payload |-> p, outcome |-> "pending"]

\* ------------------------------------------------------- the three stages
\* What an async stage function does up to its first await:
\*   kind "return": it returned value without awaiting;
\*   kind "throw" : it threw error without awaiting;
\*   kind "await" : it issued call and awaits it.
\* writes are the setStatus calls it made on the way.

FilesMissing(fd) == fd.participants = Null \/ fd.template = Null

uploadFormData(fd) ==
  [participants |-> fd.participants, template |-> fd.template,
   emailBody |-> fd.emailBody]

uploadFiles(fd) ==
  IF FilesMissing(fd)
    THEN [kind |-> "return", writes |-> <<Status("error", MsgSelectFiles)>>]
    ELSE [kind |-> "await", writes |-> <<>>]

\* Mutant: a failed upload is reported by returning false, like the
\* missing-file check, instead of throwing.
uploadFilesSettled_ReturnsFalse(ok) == [kind |-> "return", error |-> Err("")]

uploadFilesSettled(ok) ==
  IF ok THEN [kind |-> "return", error |-> Err("")]
        ELSE [kind |-> "throw", error |-> Err(MsgUploadFailed)]

generateData(fd) ==
  [x |-> fd.x, y |-> fd.y, fontsize |-> fd.fontsize, color |-> fd.color,
   outline |-> fd.outline, dpi |-> fd.dpi]

generateCertificatesSettled(ok) ==
  IF ok THEN [kind |-> "return", error |-> Err("")]
        ELSE [kind |-> "throw", error |-> Err(MsgGenerateFailed)]

emailData(fd) ==
  [senderEmail |-> fd.senderEmail, senderPassword |-> fd.senderPassword,
   customSubject |-> fd.customSubject, dryRun |-> FALSE]

\* Mutant: the sender email is not checked before the call.
sendEmails_NoCheck(fd) == [kind |-> "await", error |-> Err("")]

sendEmails(fd) ==
  IF fd.senderEmail = ""
    THEN [kind |-> "throw", error |-> Err(MsgSenderRequired)]
    ELSE [kind |-> "await", error |-> Err("")]

\* Mutant: the error of the failed request is thrown on as it is.
sendEmailsSettled_Rethrows(ok) ==
  IF ok THEN [kind |-> "return", error |-> Err("")]
        ELSE [kind |-> "throw", error |-> Err("Network Error")]

sendEmailsSettled(ok) ==
  IF ok THEN [kind |-> "return", error |-> Err("")]
        ELSE [kind |-> "throw", error |-> Err(MsgSendFailed)]

\* catch (error) of handleStartProcess: the status it sets.
catchStatus(e) ==
  Status("error", IF e.isError THEN e.message ELSE MsgGeneric)

\* ------------------------------------------------------ handleStartProcess
\* A run is one invocation of handleStartProcess.  fd is the formData its
\* closures captured, via is how it was invoked ("click": the start button;
\* "call": invoked although the button was disabled), overlapped are the
\* runs that were in flight when it was invoked, pc is where it is
\* suspended, calls are the requests it has issued and writes are the
\* setStatus calls it has made, both in order.
MicrotaskPcs == {"uploadReturned", "sendThrown"}
AwaitPcs == {"uploadWait", "generateWait", "sendWait"}

Mounted == health # "unmounted"
MicrotaskPending == \E r \in 1..Len(runs) : runs[r].pc \in MicrotaskPcs
\* A new task (a user event, a network completion) can start.
TaskTurn == Mounted /\ ~MicrotaskPending

InFlight(run) == run.pc # "settled"
RunsInFlight == {r \in 1..Len(runs) : InFlight(runs[r])}

\* The promise of the run's outstanding call settles.
SettleCall(run, ok) ==
  [run EXCEPT !.calls[Len(run.calls)].outcome = IF ok THEN "ok" ELSE "fail"]

\* try-block, after "await uploadFiles()" has resumed (lines 131-132).
BeginGenerate(run) ==
  [run EXCEPT !.pc = "generateWait",
              !.writes = Append(@, Loading(MsgGenerating)),
              !.calls = Append(@, Call(GenerateEndpoint, generateData(run.fd)))]

\* Mutant: sendEmails reads the form as it is when the send stage begins.
BeginSend_ReadsForm(run) ==
  IF sendEmails(formData).kind = "throw"
    THEN [run EXCEPT !.pc = "sendThrown",
                     !.writes = Append(@, Loading(MsgSending))]
    ELSE [run EXCEPT !.pc = "sendWait",
                     !.writes = Append(@, Loading(MsgSending)),
                     !.calls = Append(@, Call(SendEndpoint, emailData(formData)))]

\* try-block, after "await generateCertificates()" has resumed (lines 134-135).
BeginSend(run) ==
  IF sendEmails(run.fd).kind = "throw"
    THEN [run EXCEPT !.pc = "sendThrown",
                     !.writes = Append(@, Loading(MsgSending))]
    ELSE [run EXCEPT !.pc = "sendWait",
                     !.writes = Append(@, Loading(MsgSending)),
                     !.calls = Append(@, Call(SendEndpoint, emailData(run.fd)))]

\* Mutant: the success status is not set.
Complete_NoStatus(run) == [run EXCEPT !.pc = "settled"]

\* try-block, after "await sendEmails()" has resumed (lines 137-140), then
\* finally.
Complete(run) ==
  [run EXCEPT !.pc = "settled",
              !.writes = Append(@, Status("success", MsgSuccess))]

\* catch and finally (lines 141-148).
Fail(run, e) ==
  [run EXCEPT !.pc = "settled", !.writes = Append(@, catchStatus(e))]

\* The await of a stage resumes with res; a returned value is not looked at.
AfterUpload(run, res) ==
  IF res.kind = "throw" THEN Fail(run, res.error) ELSE BeginGenerate(run)
AfterGenerate(run, res) ==
  IF res.kind = "throw" THEN Fail(run, res.error) ELSE BeginSend(run)
AfterSend(run, res) ==
  IF res.kind = "throw" THEN Fail(run, res.error) ELSE Complete(run)

\* Mutant: the first setStatus is left out.
StartRun_NoStarting(fd, via) ==
  LET u == uploadFiles(fd) IN
  [ fd |-> fd, via |-> via, overlapped |-> RunsInFlight,
    pc |-> IF u.kind = "return" THEN "uploadReturned" ELSE "uploadWait",
    calls |-> IF u.kind = "await"
                THEN <<Call(UploadEndpoint, uploadFormData(fd))>> ELSE <<>>,
    writes |-> <<Loading(MsgUploading)>> \o u.writes ]

\* The first synchronous block (lines 124-129, with uploadFiles up to its
\* await or return).
StartRun(fd, via) ==
  LET u == uploadFiles(fd) IN
  [ fd |-> fd, via |-> via, overlapped |-> RunsInFlight,
    pc |-> IF u.kind = "return" THEN "uploadReturned" ELSE "uploadWait",
    calls |-> IF u.kind = "await"
                THEN <<Call(UploadEndpoint, uploadFormData(fd))>> ELSE <<>>,
    writes |-> <<Loading(MsgStarting), Loading(MsgUploading)>> \o u.writes ]

\* Mutant: the busy flag is cleared after the try-block, not in finally, so
\* a run that fails leaves it set.
Resume_NoFinally(r, new) ==
  /\ runs' = [runs EXCEPT ![r] = new]
  /\ status' = Last(new.writes)
  /\ isProcessing' = IF new.pc = "settled" /\ Last(new.writes).type = "success"
                       THEN FALSE ELSE isProcessing
  /\ UNCHANGED <<formData, downloads, health, console>>

\* The state after a block of run r that leaves the run as new: the status
\* is the block's last setStatus, and finally clears the busy flag.
Resume(r, new) ==
  /\ runs' = [runs EXCEPT ![r] = new]
  /\ status' = Last(new.writes)
  /\ isProcessing' = IF new.pc = "settled" THEN FALSE ELSE isProcessing
  /\ UNCHANGED <<formData, downloads, health, console>>

\* The payload fields that the form fd or the form of a run holds edited.
EditedInSession(fd) ==
  Edited(fd) \cup UNION {Edited(runs[r].fd) : r \in 1..Len(runs)}

\* What the session holds of its bound MaxActivity when the form is fd.
Activity(fd) ==
  Len(runs) + Len(downloads) + Cardinality(EditedInSession(fd))

handleStartProcess(via) ==
  /\ TaskTurn
  /\ Len(runs) < MaxRuns
  /\ Activity(formData) < MaxActivity
  /\ LET new == StartRun(formData, via) IN
       /\ runs' = Append(runs, new)
       /\ status' = Last(new.writes)
  /\ isProcessing' = TRUE
  /\ UNCHANGED <<formData, downloads, health, console>>

\* Mutant: the start button is not disabled while a run is in progress.
StartDisabled_IgnoresBusy ==
  \/ formData.participants = Null
  \/ formData.template = Null
  \/ formData.senderEmail = ""

\* Mutant: the start button does not ask for a sender email.
StartDisabled_AllowsNoEmail ==
  \/ isProcessing
  \/ formData.participants = Null
  \/ formData.template = Null

\* disabled attribute of the start button.
StartDisabled ==
  \/ isProcessing
  \/ formData.participants = Null
  \/ formData.template = Null
  \/ formData.senderEmail = ""

ClickStart == ~StartDisabled /\ handleStartProcess("click")
\* handleStartProcess invoked past the disabled button.
CallStart == StartDisabled /\ handleStartProcess("call")

UploadReturnedResume(r) ==
  /\ Mounted
  /\ runs[r].pc = "uploadReturned"
  /\ Resume(r, AfterUpload(runs[r], uploadFiles(runs[r].fd)))

UploadSettles(r, ok) ==
  /\ TaskTurn
  /\ runs[r].pc = "uploadWait"
  /\ Resume(r, AfterUpload(SettleCall(runs[r], ok), uploadFilesSettled(ok)))

GenerateSettles(r, ok) ==
  /\ TaskTurn
  /\ runs[r].pc = "generateWait"
  /\ Resume(r, AfterGenerate(SettleCall(runs[r], ok),
                             generateCertificatesSettled(ok)))

SendThrownResume(r) ==
  /\ Mounted
  /\ runs[r].pc = "sendThrown"
  /\ Resume(r, AfterSend(runs[r], sendEmails(runs[r].fd)))

SendSettles(r, ok) ==
  /\ TaskTurn
  /\ runs[r].pc = "sendWait"
  /\ Resume(r, AfterSend(SettleCall(runs[r], ok), sendEmailsSettled(ok)))

\* ------------------------------------------------------------ form edits
handleFileChange(field, file) ==
  /\ TaskTurn
  /\ formData' = [formData EXCEPT ![field] = file]
  /\ UNCHANGED <<status, isProcessing, runs, downloads, health, console>>

handleInputChange(field, value) ==
  /\ TaskTurn
  /\ field \in PayloadFields =>
       Activity([formData EXCEPT ![field] = value]) <= MaxActivity
  /\ formData' = [formData EXCEPT ![field] = value]
  /\ UNCHANGED <<status, isProcessing, runs, downloads, health, console>>

\* -------------------------------------------------- downloadCertificates
\* A download is one invocation of downloadCertificates.  via is how it was
\* invoked ("click": the download button; "call": invoked although the
\* button was disabled); saved is the name of the file the browser was made
\* to save; url is the object URL it created: none (Null), "revoked" or
\* "unreleased".
StartDownload(via) ==
  [via |-> via, pc |-> "wait", outcome |-> "pending", saved |-> Null,
   url |-> Null]

downloadCertificates(via) ==
  /\ TaskTurn
  /\ Len(downloads) < MaxDownloads
  /\ Activity(formData) < MaxActivity
  /\ downloads' = Append(downloads, StartDownload(via))
  /\ UNCHANGED <<formData, status, isProcessing, runs, health, console>>

\* Mutant: the download button has no disabled attribute.
DownloadDisabled_Never == FALSE

\* disabled attribute of the download button.
DownloadDisabled == isProcessing

ClickDownload == ~DownloadDisabled /\ downloadCertificates("click")
CallDownload == DownloadDisabled /\ downloadCertificates("call")

\* Mutant: a finished download is reported in the status.
DownloadSucceeds_SetsStatus(d) ==
  /\ downloads' = [downloads EXCEPT ![d] =
       [@ EXCEPT !.pc = "done", !.outcome = "ok", !.saved = "certificates.zip",
                 !.url = "revoked"]]
  /\ status' = Status("success", "Certificates downloaded")
  /\ UNCHANGED <<formData, isProcessing, runs, health, console>>

\* try-block after the await (lines 157-164).
DownloadSucceeds(d) ==
  /\ downloads' = [downloads EXCEPT ![d] =
       [@ EXCEPT !.pc = "done", !.outcome = "ok", !.saved = "certificates.zip",
                 !.url = "revoked"]]
  /\ UNCHANGED <<formData, status, isProcessing, runs, health, console>>

\* Mutant: the catch block also clears the busy flag.
DownloadFails_ClearsBusy(d) ==
  /\ downloads' = [downloads EXCEPT ![d] =
       [@ EXCEPT !.pc = "done", !.outcome = "fail"]]
  /\ status' = Status("error", MsgDownloadFailed)
  /\ isProcessing' = FALSE
  /\ UNCHANGED <<formData, runs, health, console>>

\* Mutant: the catch block does not replace the success status of a run.
DownloadFails_KeepsSuccess(d) ==
  /\ downloads' = [downloads EXCEPT ![d] =
       [@ EXCEPT !.pc = "done", !.outcome = "fail"]]
  /\ status' = IF status.type = "success"
                 THEN status ELSE Status("error", MsgDownloadFailed)
  /\ UNCHANGED <<formData, isProcessing, runs, health, console>>

\* catch (lines 165-167).
DownloadFails(d) ==
  /\ downloads' = [downloads EXCEPT ![d] =
       [@ EXCEPT !.pc = "done", !.outcome = "fail"]]
  /\ status' = Status("error", MsgDownloadFailed)
  /\ UNCHANGED <<formData, isProcessing, runs, health, console>>

DownloadSettles(d, ok) ==
  /\ TaskTurn
  /\ downloads[d].pc = "wait"
  /\ IF ok THEN DownloadSucceeds(d) ELSE DownloadFails(d)

\* The calls of the try-block after the await, in order (lines 157-164);
\* they are the environment's, and each of them may throw.
DownloadStatements ==
  << "Blob", "createObjectURL", "createElement", "setAttribute",
     "appendChild", "click", "remove", "revokeObjectURL" >>
Position(stmt) ==
  CHOOSE i \in 1..Len(DownloadStatements) : DownloadStatements[i] = stmt
\* Statement s has returned when statement t throws.
Returned(s, t) == Position(s) < Position(t)

\* The request succeeds and statement stmt throws: the statements before it
\* have taken effect (the object URL exists once createObjectURL has
\* returned, the file is saved once click has), those after it, among them
\* revokeObjectURL, are not reached, and the catch block runs.
DownloadThrows(d, stmt) ==
  /\ TaskTurn
  /\ downloads[d].pc = "wait"
  /\ downloads' = [downloads EXCEPT ![d] =
       [@ EXCEPT !.pc = "done", !.outcome = "threw",
                 !.saved = IF Returned("click", stmt)
                             THEN "certificates.zip" ELSE Null,
                 !.url = IF Returned("createObjectURL", stmt)
                           THEN "unreleased" ELSE Null]]
  /\ status' = Status("error", MsgDownloadFailed)
  /\ UNCHANGED <<formData, isProcessing, runs, health, console>>

\* ------------------------------------------------ checkBackendConnection
\* useEffect with no dependencies: runs once, after the first render and
\* before any user event is handled.
Mount ==
  /\ health = "unmounted"
  /\ health' = "wait"
  /\ UNCHANGED <<formData, status, isProcessing, runs, downloads, console>>

HealthSucceeds ==
  /\ health' = "done"
  /\ console' = Append(console, [level |-> "log", text |-> "Backend connected:"])
  /\ UNCHANGED <<formData, status, isProcessing, runs, downloads>>

\* Mutant: a failed health check is shown in the status.
HealthFails_SetsStatus ==
  /\ health' = "done"
  /\ console' = Append(console,
                       [level |-> "error", text |-> "Backend connection failed:"])
  /\ status' = Status("error", "Backend connection failed")
  /\ UNCHANGED <<formData, isProcessing, runs, downloads>>

HealthFails ==
  /\ health' = "done"
  /\ console' = Append(console,
                       [level |-> "error", text |-> "Backend connection failed:"])
  /\ UNCHANGED <<formData, status, isProcessing, runs, downloads>>

HealthSettles(ok) ==
  /\ TaskTurn
  /\ health = "wait"
  /\ IF ok THEN HealthSucceeds ELSE HealthFails

\* ---------------------------------------------------------- specification
Init ==
  /\ formData = InitialFormData
  /\ status = InitialStatus
  /\ isProcessing = FALSE
  /\ runs = <<>>
  /\ downloads = <<>>
  /\ health = "unmounted"
  /\ console = <<>>

Next ==
  \/ Mount
  \/ \E ok \in BOOLEAN : HealthSettles(ok)
  \/ \E e \in FileEdits : handleFileChange(e[1], e[2])
  \/ \E e \in InputEdits : handleInputChange(e[1], e[2])
  \/ ClickStart
  \/ CallStart
  \/ \E r \in 1..Len(runs) : UploadReturnedResume(r)
  \/ \E r \in 1..Len(runs), ok \in BOOLEAN : UploadSettles(r, ok)
  \/ \E r \in 1..Len(runs), ok \in BOOLEAN : GenerateSettles(r, ok)
  \/ \E r \in 1..Len(runs) : SendThrownResume(r)
  \/ \E r \in 1..Len(runs), ok \in BOOLEAN : SendSettles(r, ok)
  \/ ClickDownload
  \/ CallDownload
  \/ \E d \in 1..Len(downloads), ok \in BOOLEAN : DownloadSettles(d, ok)
  \/ \E d \in 1..Len(downloads), i \in 1..Len(DownloadStatements) :
       DownloadThrows(d, DownloadStatements[i])

Spec == Init /\ [][Next]_vars

\* The next block of run r: the microtask it waits for runs, or the request
\* it awaits settles.
RunStep(r) ==
  /\ r \in 1..Len(runs)
  /\ \/ UploadReturnedResume(r)
     \/ SendThrownResume(r)
     \/ \E ok \in BOOLEAN :
          UploadSettles(r, ok) \/ GenerateSettles(r, ok) \/ SendSettles(r, ok)

\* Every request of a run is answered in the end, and a microtask that is
\* queued is run.
LiveSpec ==
  Init /\ [][Next]_vars /\ \A r \in 1..MaxRuns : WF_vars(RunStep(r))

TypeOK ==
  /\ isProcessing \in BOOLEAN
  /\ status.type \in {Null, "loading", "success", "error"}
  /\ health \in {"unmounted", "wait", "done"}
  /\ Len(runs) <= MaxRuns
  /\ Len(downloads) <= MaxDownloads
  /\ \A r \in 1..Len(runs) :
       runs[r].pc \in MicrotaskPcs \cup AwaitPcs \cup {"settled"}

\* ================================================================ claims
Runs == 1..Len(runs)
Downloads == 1..Len(downloads)
Settled(r) == runs[r].pc = "settled"
Endpoints(r) == [k \in 1..Len(runs[r].calls) |-> runs[r].calls[k].endpoint]
Outcomes(r) == [k \in 1..Len(runs[r].calls) |-> runs[r].calls[k].outcome]
FinalStatus(r) == Last(runs[r].writes)

\* A run, a download can be invoked: a task can run and the bounds leave
\* room for one.
CanInvoke ==
  TaskTurn /\ Len(runs) < MaxRuns /\ Activity(formData) < MaxActivity
CanDownload ==
  TaskTurn /\ Len(downloads) < MaxDownloads /\ Activity(formData) < MaxActivity

\* C1: a run whose participants or template file is absent issues no call
\* to any endpoint and ends with the validation error status.
C1_MissingFilesNoCall ==
  \A r \in Runs :
    FilesMissing(runs[r].fd) =>
      /\ runs[r].calls = <<>>
      /\ Settled(r) => FinalStatus(r) = Status("error", MsgSelectFiles)

\* The message a failed call of an endpoint is reported with.
StageMessage(e) ==
  CASE e = UploadEndpoint -> MsgUploadFailed
    [] e = GenerateEndpoint -> MsgGenerateFailed
    [] e = SendEndpoint -> MsgSendFailed

Wrote(r, st) == \E i \in 1..Len(runs[r].writes) : runs[r].writes[i] = st
Called(r, e) == \E k \in 1..Len(runs[r].calls) : runs[r].calls[k].endpoint = e

\* What C2 says of run r.
FailureIsTerminal(r) ==
  /\ \A i \in 1..Len(runs[r].writes) :
       runs[r].writes[i].type = "error" => i = Len(runs[r].writes)
  /\ \A k \in 1..Len(runs[r].calls) :
       runs[r].calls[k].outcome = "fail" =>
         /\ k = Len(runs[r].calls)
         /\ Settled(r)
         /\ FinalStatus(r) =
              Status("error", StageMessage(runs[r].calls[k].endpoint))
  /\ Wrote(r, Status("error", MsgSelectFiles)) => runs[r].calls = <<>>
  /\ Wrote(r, Status("error", MsgSenderRequired)) =>
       Settled(r) /\ ~Called(r, SendEndpoint)

\* C2: once a stage of a run has reported a failure (an error status for a
\* missing file or a missing sender email, or a failed call), the run
\* attempts no later stage and settles with that failure's message: the
\* error is the run's last status, never followed by loading or success.
C2_FailureIsTerminal == \A r \in Runs : FailureIsTerminal(r)

\* C2 holds of the runs that have both files (not a claim: it locates the
\* failure of C2 in the missing-file check).
FailureIsTerminalWithFiles ==
  \A r \in Runs : ~FilesMissing(runs[r].fd) => FailureIsTerminal(r)

FiveStatuses ==
  << Loading(MsgStarting), Loading(MsgUploading), Loading(MsgGenerating),
     Loading(MsgSending), Status("success", MsgSuccess) >>

AllSucceeded(r) ==
  /\ Endpoints(r) = <<UploadEndpoint, GenerateEndpoint, SendEndpoint>>
  /\ Outcomes(r) = <<"ok", "ok", "ok">>

\* C3: a run whose upload, generate and send calls all succeeded has set the
\* status to exactly the five documented values, in order.
C3_SuccessSequence ==
  \A r \in Runs : AllSucceeded(r) => runs[r].writes = FiveStatuses

C3_Witness == \E r \in Runs : AllSucceeded(r) /\ Settled(r)

Failed(r, e) ==
  \E k \in 1..Len(runs[r].calls) :
    runs[r].calls[k].endpoint = e /\ runs[r].calls[k].outcome = "fail"

\* C4: a run whose upload call failed has called upload once and generate
\* and send never, and its final status is error "Failed to upload files";
\* a run whose upload succeeded and whose generate call failed has not
\* called send, and its final status is error "Failed to generate
\* certificates".
C4_UploadOrGenerateFailure ==
  \A r \in Runs :
    /\ Failed(r, UploadEndpoint) =>
         /\ Endpoints(r) = <<UploadEndpoint>>
         /\ Settled(r)
         /\ FinalStatus(r) = Status("error", MsgUploadFailed)
    /\ Called(r, UploadEndpoint) /\ Failed(r, GenerateEndpoint) =>
         /\ Endpoints(r) = <<UploadEndpoint, GenerateEndpoint>>
         /\ Outcomes(r) = <<"ok", "fail">>
         /\ Settled(r)
         /\ FinalStatus(r) = Status("error", MsgGenerateFailed)

C4_Witness ==
  \E r, q \in Runs :
    /\ Failed(r, UploadEndpoint)
    /\ Called(q, UploadEndpoint) /\ Failed(q, GenerateEndpoint)

\* C5: a run whose upload and generate calls succeeded and whose send call
\* failed has settled with the final status error "Failed to send emails".
C5_SendFailure ==
  \A r \in Runs :
    Endpoints(r) = <<UploadEndpoint, GenerateEndpoint, SendEndpoint>>
      /\ Outcomes(r) = <<"ok", "ok", "fail">> =>
        /\ Settled(r)
        /\ FinalStatus(r) = Status("error", MsgSendFailed)
        /\ FinalStatus(r).type # "success"
        /\ FinalStatus(r).message # MsgGeneric

C5_Witness ==
  \E r \in Runs :
    Endpoints(r) = <<UploadEndpoint, GenerateEndpoint, SendEndpoint>>
      /\ Outcomes(r) = <<"ok", "ok", "fail">>

\* C6: a run with both files present and an empty senderEmail calls upload,
\* then generate once upload has succeeded, never send, and once both calls
\* have succeeded it ends with error "Sender email is required".
C6_StagedEmailCheck ==
  \A r \in Runs :
    ~FilesMissing(runs[r].fd) /\ runs[r].fd.senderEmail = "" =>
      /\ Len(runs[r].calls) >= 1
      /\ Endpoints(r)[1] = UploadEndpoint
      /\ Outcomes(r)[1] = "ok" <=> Len(runs[r].calls) = 2
      /\ Len(runs[r].calls) = 2 => Endpoints(r)[2] = GenerateEndpoint
      /\ Len(runs[r].calls) <= 2
      /\ Outcomes(r) = <<"ok", "ok">> =>
           /\ runs[r].pc \in {"sendThrown", "settled"}
           /\ Settled(r) => FinalStatus(r) = Status("error", MsgSenderRequired)

C6_Witness ==
  \E r \in Runs :
    /\ ~FilesMissing(runs[r].fd) /\ runs[r].fd.senderEmail = ""
    /\ Outcomes(r) = <<"ok", "ok">>
    /\ Settled(r)

RunSettles(r, ok) ==
  UploadSettles(r, ok) \/ GenerateSettles(r, ok) \/ SendSettles(r, ok)

DownloadOutstanding == \E d \in Downloads : downloads[d].pc = "wait"

\* C7: no step of a download (its invocation, its success, its failure)
\* changes isProcessing, and while a download is outstanding a run that
\* awaits a call can take the step of that call settling, with either
\* outcome, as soon as a task can run.
C7_DownloadLeavesRunAlone ==
  /\ [][downloads' # downloads => isProcessing' = isProcessing]_vars
  /\ [](\A r \in Runs :
          DownloadOutstanding /\ TaskTurn /\ runs[r].pc \in AwaitPcs =>
            ENABLED RunSettles(r, TRUE) /\ ENABLED RunSettles(r, FALSE))

\* A download invoked while the start button was disabled by isProcessing
\* has failed; the run has since set a loading status and is in flight with
\* isProcessing still true.
C7_Witness ==
  \E d \in Downloads :
    /\ downloads[d].via = "call" /\ downloads[d].outcome = "fail"
    /\ isProcessing
    /\ status.type = "loading"
    /\ RunsInFlight # {}

\* C8: the invocation and the success of a download leave the status as it
\* was; its failure, of the request or of a later statement, sets the status
\* to error "Failed to download certificates".
C8_DownloadStatus ==
  [][/\ Len(downloads') > Len(downloads) => status' = status
     /\ \A d \in Downloads :
          downloads[d].pc = "wait" /\ downloads'[d].pc = "done" =>
            IF downloads'[d].outcome # "ok"
              THEN status' = Status("error", MsgDownloadFailed)
              ELSE status' = status]_vars

C8_Witness ==
  \E d \in Downloads :
    /\ downloads[d].outcome = "ok" /\ downloads[d].saved = "certificates.zip"
    /\ status.type = "loading"

\* C9: no step of the health check changes the status or isProcessing, and
\* while the health check is outstanding a run can be invoked and a run
\* that awaits a call can take the step of that call settling.
C9_HealthIsObservational ==
  /\ [][health' # health => status' = status /\ isProcessing' = isProcessing]_vars
  /\ [](health = "wait" /\ TaskTurn =>
          /\ CanInvoke => ENABLED (ClickStart \/ CallStart)
          /\ \A r \in Runs : runs[r].pc \in AwaitPcs =>
               ENABLED RunSettles(r, TRUE) /\ ENABLED RunSettles(r, FALSE))

\* A run invoked from the button has gone through all its stages while the
\* health check is still outstanding.
C9_Witness ==
  /\ health = "wait"
  /\ \E r \in Runs : runs[r].via = "click" /\ AllSucceeded(r) /\ Settled(r)

\* Run r is the invocation that follows run r - 1, was invoked after run
\* r - 1 had failed, and has the same input.
FollowsFailure(r) ==
  /\ r > 1
  /\ r - 1 \notin runs[r].overlapped
  /\ Settled(r - 1) /\ FinalStatus(r - 1).type = "error"
  /\ runs[r].fd = runs[r - 1].fd

\* C10: the first endpoint call of a run invoked after the previous run has
\* failed, on the same input, is the upload call.
C10_RestartsAtUpload ==
  \A r \in Runs :
    FollowsFailure(r) /\ runs[r].calls # <<>> =>
      Endpoints(r)[1] = UploadEndpoint

\* Whatever went before, a run's first call depends on its own input alone
\* (not a claim: it shows that C10 fails through the missing-file check and
\* not through memory of an earlier run).
FirstCallByInput ==
  \A r \in Runs :
    runs[r].calls # <<>> =>
      Endpoints(r)[1] = IF FilesMissing(runs[r].fd) THEN GenerateEndpoint
                                                     ELSE UploadEndpoint

\* Every run was invoked while no run was in flight, which is the same as:
\* every run was invoked while isProcessing was false (BusyHasRun).
NoRunOverlapped == \A r \in Runs : runs[r].overlapped = {}

\* isProcessing is true only while some run is in flight (not a claim: it
\* relates an invocation with isProcessing true to an overlapped run).
BusyHasRun == isProcessing => RunsInFlight # {}

\* C11: when every run was invoked while isProcessing was false,
\* isProcessing is true in every state in which a run is in flight and
\* false in every state in which the runs have settled, whether they ended
\* in success or in an error.
C11_BusyWhileInFlight ==
  NoRunOverlapped => (isProcessing <=> RunsInFlight # {})

\* One run has succeeded and the next, invoked after it, has failed.
C11_Witness ==
  /\ NoRunOverlapped
  /\ ~isProcessing
  /\ \E r, q \in Runs :
       /\ Settled(r) /\ FinalStatus(r).type = "success"
       /\ Settled(q) /\ FinalStatus(q).type = "error"

\* The payload of a request to endpoint e built from the form fd.
PayloadOf(e, fd) ==
  CASE e = UploadEndpoint -> uploadFormData(fd)
    [] e = GenerateEndpoint -> generateData(fd)
    [] e = SendEndpoint -> emailData(fd)

\* The form a run of the next state was invoked with: the form of the same
\* run now, or the current form when this step invokes it.
InvokedWith(r) == IF r \in Runs THEN runs[r].fd ELSE formData

\* C12: the payload of every request of a run, and the sender email check
\* of its send stage, are taken from the form as it was when the run was
\* invoked, whatever edits were made since; a step of a run, of a download
\* or of the health check leaves the form unchanged, and an edit of the form
\* leaves the runs unchanged.
C12_InputSnapshot ==
  /\ [][/\ \A r \in 1..Len(runs') :
             /\ runs'[r].fd = InvokedWith(r)
             /\ \A k \in 1..Len(runs'[r].calls) :
                  runs'[r].calls[k].payload =
                    PayloadOf(runs'[r].calls[k].endpoint, InvokedWith(r))
             /\ runs'[r].pc = "sendThrown" => InvokedWith(r).senderEmail = ""
             /\ runs'[r].pc = "sendWait" => InvokedWith(r).senderEmail # ""
        /\ runs' # runs \/ downloads' # downloads \/ health' # health
             => formData' = formData
        /\ formData' # formData => runs' = runs]_vars

\* A run was invoked without a sender email and with the initial dpi; the
\* form has been given a sender email and another dpi since, yet the run has
\* sent the initial dpi to generate and has stopped at its sender email
\* check.
C12_Witness ==
  \E r \in Runs :
    /\ runs[r].fd.senderEmail = "" /\ formData.senderEmail = SenderAddress
    /\ Edited(runs[r].fd) = {} /\ Edited(formData) = {"dpi"}
    /\ \E k \in 1..Len(runs[r].calls) :
         /\ runs[r].calls[k].endpoint = GenerateEndpoint
         /\ runs[r].calls[k].payload.dpi = DefaultDpi
    /\ Settled(r) /\ FinalStatus(r) = Status("error", MsgSenderRequired)

StageOrder == <<UploadEndpoint, GenerateEndpoint, SendEndpoint>>

\* What C13 says of run r.
CallsInOrder(r) ==
  /\ Len(runs[r].calls) <= Len(StageOrder)
  /\ \A k \in 1..Len(runs[r].calls) :
       /\ runs[r].calls[k].endpoint = StageOrder[k]
       /\ k < Len(runs[r].calls) => runs[r].calls[k].outcome = "ok"

\* C13: the requests of a run are, in order, a prefix of upload, generate,
\* send; every request but the last has succeeded, so that generate follows
\* a successful upload, send follows a successful generate, at most one
\* request is outstanding and no endpoint is called twice.
C13_CallsInOrder == \A r \in Runs : CallsInOrder(r)

\* C13 holds of the runs that have both files (not a claim: it locates the
\* failure of C13 in the missing-file check).
CallsInOrderWithFiles ==
  \A r \in Runs : ~FilesMissing(runs[r].fd) => CallsInOrder(r)

\* Of every run: at most one request is outstanding, it is the last one, and
\* no endpoint is called twice (not a claim: the part of C13 that holds of
\* the runs without files too).
OneCallAtATime ==
  \A r \in Runs :
    \A k, l \in 1..Len(runs[r].calls) :
      /\ k < l => runs[r].calls[k].outcome = "ok"
      /\ k # l => runs[r].calls[k].endpoint # runs[r].calls[l].endpoint

\* C14: a run that has written the status success "All operations completed
\* successfully!" has called upload, generate and send, and each of the
\* three calls has succeeded.
C14_SuccessNeedsAllThree ==
  \A r \in Runs : Wrote(r, Status("success", MsgSuccess)) => AllSucceeded(r)

\* C14 holds of the runs that have both files (not a claim: it locates the
\* failure of C14 in the missing-file check).
SuccessNeedsAllThreeWithFiles ==
  \A r \in Runs :
    ~FilesMissing(runs[r].fd) /\ Wrote(r, Status("success", MsgSuccess))
      => AllSucceeded(r)

\* C15: of a run and a failed download that have both settled, the one
\* whose settling step came last has written the status: a run that settles
\* after the download failed leaves its own final status, and a download
\* that fails after the run settled leaves error "Failed to download
\* certificates", whatever the run had written.
C15_LastWriterWins ==
  [][\A r \in Runs, d \in Downloads :
       /\ runs'[r].pc = "settled"
       /\ downloads'[d].pc = "done" /\ downloads'[d].outcome # "ok"
       => /\ runs[r].pc # "settled" => status' = Last(runs'[r].writes)
          /\ downloads[d].pc # "done" =>
               status' = Status("error", MsgDownloadFailed)]_vars

\* The only run has completed successfully; a download invoked while it
\* was in flight (isProcessing was true) has failed after it, and the
\* status is the download's error.
C15_Witness ==
  /\ Len(runs) = 1 /\ AllSucceeded(1) /\ Settled(1)
  /\ \E d \in Downloads :
       downloads[d].via = "call" /\ downloads[d].outcome = "fail"
  /\ status = Status("error", MsgDownloadFailed)

\* The other state C15 names: a download has failed while the only run is
\* in flight, so that isProcessing is true and the status is its error.
BusyWithDownloadError ==
  /\ Len(runs) = 1 /\ ~Settled(1) /\ runs[1].via = "click"
  /\ isProcessing
  /\ status = Status("error", MsgDownloadFailed)

\* C16: when every run was invoked from the start button, at most one run
\* is in flight; and a run that settles clears isProcessing, whether or not
\* another run is in flight.
C16_GateSerialisesRuns ==
  /\ []((\A r \in Runs : runs[r].via = "click") =>
          Cardinality(RunsInFlight) <= 1)
  /\ [][\A r \in Runs :
          runs[r].pc # "settled" /\ runs'[r].pc = "settled" =>
            isProcessing' = FALSE]_vars

\* The second run was invoked past the disabled button while the first was
\* in flight; one of the two has settled and cleared isProcessing while the
\* other is still in flight.
C16_Witness ==
  /\ Len(runs) = 2
  /\ runs[2].via = "call" /\ runs[2].overlapped = {1}
  /\ Cardinality(RunsInFlight) = 1
  /\ ~isProcessing

\* C17, as stated: while isProcessing is true the download can be triggered
\* from the download button (whenever a task can run and the model has a
\* download left).
C17_DownloadNotGated ==
  isProcessing /\ CanDownload => ENABLED ClickDownload

\* C17, amended: the download button cannot trigger a download while
\* isProcessing is true, and every download it triggered was invoked while
\* isProcessing was false.
C17_DownloadGatedByBusy ==
  /\ [](isProcessing => ~ENABLED ClickDownload)
  /\ [][Len(downloads') > Len(downloads) /\ Last(downloads').via = "click"
          => ~isProcessing]_vars

\* A download triggered from the button, before the run was, is outstanding
\* while the run is in flight.
C17_Witness ==
  /\ isProcessing /\ RunsInFlight # {}
  /\ \E d \in Downloads :
       downloads[d].via = "click" /\ downloads[d].pc = "wait"
  /\ \E r \in Runs : runs[r].pc = "generateWait"

\* C18, as stated: whenever both files are present and no run is in flight
\* the start button can trigger a run, whatever senderEmail is.
C18_StartWithoutEmail ==
  CanInvoke /\ ~FilesMissing(formData) /\ RunsInFlight = {} =>
    ENABLED ClickStart

\* C18, amended: the start button can trigger a run exactly when both files
\* are present, senderEmail is not empty and isProcessing is false, and
\* every run it triggered has both files and a sender email.
C18_StartNeedsEmail ==
  /\ [](CanInvoke =>
          (ENABLED ClickStart <=>
             /\ ~isProcessing
             /\ ~FilesMissing(formData)
             /\ formData.senderEmail # ""))
  /\ [][Len(runs') > Len(runs) /\ Last(runs').via = "click" =>
          /\ ~isProcessing
          /\ ~FilesMissing(Last(runs').fd)
          /\ Last(runs').fd.senderEmail # ""]_vars

\* After a run triggered from the button has settled, both files are
\* present, senderEmail is empty and no run is in flight: the button is
\* disabled.
C18_Witness ==
  /\ CanInvoke
  /\ ~FilesMissing(formData) /\ formData.senderEmail = ""
  /\ RunsInFlight = {} /\ ~isProcessing
  /\ \E r \in Runs : runs[r].via = "click"
  /\ ~ENABLED ClickStart

\* C19: when every request of a run is answered in the end, every run that
\* was invoked settles in the end; the block in which it settles sets a
\* status of type success or error and clears isProcessing, so a settled
\* run's last status is never a loading one.
C19_RunSettles ==
  /\ \A r \in 1..MaxRuns :
       [](Len(runs) >= r => <>(Len(runs) >= r /\ runs[r].pc = "settled"))
  /\ [][\A r \in Runs :
          runs[r].pc # "settled" /\ runs'[r].pc = "settled" =>
            /\ status' = Last(runs'[r].writes)
            /\ status'.type \in {"success", "error"}
            /\ isProcessing' = FALSE]_vars

\* Both runs have settled, one with success and one with an error, each
\* after all three of its requests were answered.
C19_Witness ==
  /\ Len(runs) = MaxRuns
  /\ \A r \in Runs : Settled(r) /\ Len(runs[r].calls) = 3
  /\ \E r, q \in Runs :
       FinalStatus(r).type = "success" /\ FinalStatus(q).type = "error"

\* C19 without its premise (not a claim: under Spec, which states no
\* fairness, a request may stay unanswered and a run need not settle).
SettlesWithoutAnswers ==
  \A r \in 1..MaxRuns :
    [](Len(runs) >= r => <>(Len(runs) >= r /\ runs[r].pc = "settled"))

\* C20: a download that has settled, by success or by a failure at any
\* statement, has left no object URL it created unreleased.
C20_NoUnreleasedUrl ==
  \A d \in Downloads :
    downloads[d].pc = "done" => downloads[d].url # "unreleased"

\* A download whose request failed created no object URL, and a download
\* all of whose statements succeeded revoked the one it created (not a
\* claim: it locates the failure of C20 in the statements from
\* createElement to revokeObjectURL).
UrlReleasedUnlessThrown ==
  \A d \in Downloads :
    /\ downloads[d].outcome = "fail" => downloads[d].url = Null
    /\ downloads[d].outcome = "ok" => downloads[d].url = "revoked"

====
